---- MODULE Spec2Model ----
(***************************************************************************)
(* RailBridge cross-chain payment facilitator.                             *)
(*                                                                         *)
(* Part 1 (Spec, FairSpec): the bridge job store (SqliteBridgeJobRepository)*)
(* and the bridge worker (handleCrossChainBridgeAsync /                     *)
(* attemptBridgeWithRetry / CircleCCTPBridgeService.bridge).  Every await   *)
(* of the worker is a step boundary: a repository read happens at the end   *)
(* of one step, the write that uses the value read in the next one.         *)
(***************************************************************************)
EXTENDS Integers, Sequences, FiniteSets, TLC

\* ---------------------------------------------------------------- bounds
MaxJobs == 2
MaxRuns == 2
MaxBurns == 2
MaxStarts == 2
MaxCrashes == 1

\* ------------------------------------------------------ program constants
DEFAULT_MAX_ATTEMPTS == 3

JobIds == 1..MaxJobs
Runs == 1..MaxRuns

SrcNets == {"eip155:84532"}
DstNets == {"eip155:11155111"}
TxHashes == {"0xaa", "0xbb"}

\* JavaScript undefined / SQL NULL in an optional column.
Undefined == "undefined"

TerminalStatuses == {"completed", "failed", "cancelled"}

VARIABLES
  store,         \* bridge_jobs table: job id -> row (status "absent": no row)
  runs,          \* the background tasks spawned by handleCrossChainBridgeAsync
  burns,         \* per job: number of source-chain burns the bridge kit executed
  calls,         \* per job: number of bridgeService.bridge calls started
  createResult,  \* outcome of the last repository create: "none", "ok", "conflict"
  starts,        \* number of handleCrossChainBridgeAsync calls so far
  crashes,       \* number of process restarts so far
  now,           \* Math.floor(Date.now() / 1e3)
  usedNonces,    \* token contract: authorization nonces already consumed
  balance,       \* token contract: balanceOf(payer)
  reqs,          \* the /settle requests being served
  settles,       \* number of /settle requests received so far
  successes,     \* per authorization nonce: settle responses with success = true
  settled,       \* the payloads some settle call has answered success for
  enabled,       \* config.CROSS_CHAIN_ENABLED
  vreq,          \* the last /verify request and its response
  hreq,          \* the HTTP request a facilitator server is handling
  htask,         \* the background bridge task spawned by onAfterSettle
  xreq,          \* a request body and what extractCrossChainInfo returned for it
  dreq,          \* requirements.extra.domain and the EIP-712 domain built from it
  signer         \* the facilitator key on one chain: the node's pending count,
                 \* the settlement nonce manager, the transactions signed

bvars == <<store, runs, burns, calls, createResult, starts, crashes>>
svars == <<now, usedNonces, balance, reqs, settles, successes, settled>>
vvars == <<enabled, vreq, xreq, dreq, signer>>
hvars == <<hreq, htask>>
vars == <<bvars, svars, vvars, hvars>>

\* ------------------------------------------------------------ job records
NoJob ==
  [id |-> 0, idempotencyKey |-> "", sourceNetwork |-> "",
   destinationNetwork |-> "", sourceTxHash |-> "", status |-> "absent",
   attempts |-> 0, lastError |-> Undefined, bridgeTxHash |-> Undefined,
   destinationTxHash |-> Undefined, messageId |-> Undefined]

buildBridgeIdempotencyKey(sourceNetwork, sourceTxHash, destinationNetwork) ==
  sourceNetwork \o ":" \o sourceTxHash \o ":" \o destinationNetwork

createBridgeJob(id, key, s, t, d) ==
  [id |-> id, idempotencyKey |-> key, sourceNetwork |-> s,
   destinationNetwork |-> d, sourceTxHash |-> t, status |-> "pending",
   attempts |-> 0, lastError |-> Undefined, bridgeTxHash |-> Undefined,
   destinationTxHash |-> Undefined, messageId |-> Undefined]

Present(st) == {i \in DOMAIN st : st[i].status # "absent"}

\* randomUUID(): an id no row carries yet.
FreshIds(st) == {i \in DOMAIN st : st[i].status = "absent"}

getById(st, id) == IF id \in Present(st) THEN st[id] ELSE NoJob

getByIdempotencyKey(st, key) ==
  IF \E i \in Present(st) : st[i].idempotencyKey = key
  THEN st[CHOOSE i \in Present(st) : st[i].idempotencyKey = key]
  ELSE NoJob

\* The schema's constraints an INSERT can violate: id PRIMARY KEY,
\* idempotency_key UNIQUE.  The faulty variant below has no UNIQUE index.
InsertViolatesNoUnique(st, job) == job.id \in Present(st)

InsertViolates(st, job) ==
  \/ job.id \in Present(st)
  \/ \E i \in Present(st) : st[i].idempotencyKey = job.idempotencyKey

\* UPDATE ... WHERE id = @id: every column but id and idempotency_key is
\* overwritten from the object passed in; no row with that id: no change.
\* There is no condition on the stored status.
update(st, job) ==
  IF job.id \in Present(st)
  THEN [st EXCEPT ![job.id] =
          [job EXCEPT !.idempotencyKey = st[job.id].idempotencyKey]]
  ELSE st

\* ------------------------------------------------------------ bridge errors
NoError == [recoverability |-> Undefined, message |-> Undefined]

\* The errors a bridge call ends with in this model: two the classification
\* below calls permanent (by its message, by its recoverability), one it
\* calls transient.
BridgeErrors ==
  { [recoverability |-> Undefined, message |-> "insufficient usdc balance"],
    [recoverability |-> "FATAL", message |-> "gateway timeout"],
    [recoverability |-> "RETRYABLE", message |-> "nonce too low"] }

\* Faulty variant: the error's recoverability is not read.
isRetryableBridgeErrorMessageOnly(err) ==
  IF err.message \in {"insufficient usdc balance", "insufficient token balance"}
  THEN FALSE
  ELSE TRUE

isRetryableBridgeError(err) ==
  IF err.recoverability = "FATAL" THEN FALSE
  ELSE IF err.message \in {"insufficient usdc balance", "insufficient token balance"}
       THEN FALSE
  ELSE IF err.message \in {"nonce too low", "failed to fetch", "gateway timeout"}
       THEN TRUE
  ELSE TRUE

\* ----------------------------------------------------------- bridge results
NoResult ==
  [bridgeTxHash |-> Undefined, destinationTxHash |-> Undefined,
   messageId |-> Undefined]

\* What bridge() returns when the kit's result is not in state "error" and
\* carries a burn hash: destinationTxHash = mintStep?.txHash || "",
\* messageId = the attestation or undefined.
BridgeResults ==
  { [bridgeTxHash |-> "0xburn", destinationTxHash |-> "0xmint", messageId |-> "0xatt"],
    [bridgeTxHash |-> "0xburn", destinationTxHash |-> "", messageId |-> Undefined] }

\* ------------------------------------------------------------------- runs
IdleRun ==
  [job |-> 0, pc |-> "idle", attempt |-> 0, cur |-> NoJob,
   res |-> NoResult, err |-> NoError, conf |-> "none"]

InitBridge ==
  /\ store = [i \in JobIds |-> NoJob]
  /\ runs = [r \in Runs |-> IdleRun]
  /\ burns = [i \in JobIds |-> 0]
  /\ calls = [i \in JobIds |-> 0]
  /\ createResult = "none"
  /\ starts = 0
  /\ crashes = 0

\* createBridgeJob + repository.create for one settlement.
Create(s, t, d) ==
  /\ FreshIds(store) # {}
  /\ LET id == CHOOSE i \in FreshIds(store) : \A k \in FreshIds(store) : i <= k
         job == createBridgeJob(id, buildBridgeIdempotencyKey(s, t, d), s, t, d)
     IN IF InsertViolates(store, job)
        THEN /\ createResult' = "conflict"
             /\ UNCHANGED store
        ELSE /\ createResult' = "ok"
             /\ store' = [store EXCEPT ![id] = job]
  /\ UNCHANGED <<runs, burns, calls, starts, crashes, svars, vvars, hvars>>

\* handleCrossChainBridgeAsync(..., jobRepository, jobId): the task starts and
\* runs to its first await, the getById of the job.
HandleStart(r, j) ==
  /\ runs[r].pc = "idle"
  /\ j \in Present(store)
  /\ starts < MaxStarts
  /\ starts' = starts + 1
  /\ runs' = [runs EXCEPT ![r] =
       [IdleRun EXCEPT !.job = j, !.pc = "h_update", !.cur = getById(store, j)]]
  /\ UNCHANGED <<store, burns, calls, createResult, crashes, svars, vvars, hvars>>

\* job.status = "bridging"; update(job).
HandleMarkBridging(r) ==
  /\ runs[r].pc = "h_update"
  /\ store' = IF runs[r].cur.status # "absent"
              THEN update(store, [runs[r].cur EXCEPT !.status = "bridging"])
              ELSE store
  /\ runs' = [runs EXCEPT ![r].pc = "a_begin", ![r].cur = NoJob]
  /\ UNCHANGED <<burns, calls, createResult, starts, crashes, svars, vvars, hvars>>

\* attemptBridgeWithRetry: loop head, attempt += 1, onAttempt reads the job.
AttemptBegin(r) ==
  /\ runs[r].pc = "a_begin"
  /\ IF runs[r].attempt < DEFAULT_MAX_ATTEMPTS
     THEN runs' = [runs EXCEPT ![r].attempt = @ + 1, ![r].pc = "a_update",
                               ![r].cur = getById(store, runs[r].job)]
     ELSE runs' = [runs EXCEPT ![r].pc = "f_update",
                               ![r].cur = getById(store, runs[r].job)]
  /\ UNCHANGED <<store, burns, calls, createResult, starts, crashes, svars, vvars, hvars>>

\* Faulty variant: onAttempt stores the number of the attempt after this one.
AttemptRecordAhead(r) ==
  /\ runs[r].pc = "a_update"
  /\ store' = IF runs[r].cur.status # "absent"
              THEN update(store, [runs[r].cur EXCEPT !.attempts = runs[r].attempt + 1])
              ELSE store
  /\ runs' = [runs EXCEPT ![r].pc = "b_call", ![r].cur = NoJob]
  /\ UNCHANGED <<burns, calls, createResult, starts, crashes, svars, vvars, hvars>>

\* onAttempt: current.attempts = attempt; await update(current).
AttemptRecord(r) ==
  /\ runs[r].pc = "a_update"
  /\ store' = IF runs[r].cur.status # "absent"
              THEN update(store, [runs[r].cur EXCEPT !.attempts = runs[r].attempt])
              ELSE store
  /\ runs' = [runs EXCEPT ![r].pc = "b_call", ![r].cur = NoJob]
  /\ UNCHANGED <<burns, calls, createResult, starts, crashes, svars, vvars, hvars>>

\* await onAttempt(attempt) has resumed: bridgeService.bridge(...) is called
\* and waits for the source transaction's receipt.
BridgeCall(r) ==
  /\ runs[r].pc = "b_call"
  /\ calls' = [calls EXCEPT ![runs[r].job] = @ + 1]
  /\ runs' = [runs EXCEPT ![r].pc = "b_wait"]
  /\ UNCHANGED <<store, burns, createResult, starts, crashes, svars, vvars, hvars>>

\* waitForSourceConfirmation returns: with the receipt, or after an error
\* (timeout, RPC failure) that it logs and swallows.  Either way the adapter
\* is recreated, kit.bridge is called and its burn step executes.
KitBurn(r, outcome) ==
  /\ runs[r].pc = "b_wait"
  /\ burns[runs[r].job] < MaxBurns
  /\ burns' = [burns EXCEPT ![runs[r].job] = @ + 1]
  /\ runs' = [runs EXCEPT ![r].pc = "kit_burned", ![r].conf = outcome]
  /\ UNCHANGED <<store, calls, createResult, starts, crashes, svars, vvars, hvars>>

\* kit.bridge ends without error; the worker reads the job to complete it.
KitReturn(r, result) ==
  /\ runs[r].pc = "kit_burned"
  /\ runs' = [runs EXCEPT ![r].pc = "s_update", ![r].res = result,
                          ![r].cur = getById(store, runs[r].job)]
  /\ UNCHANGED <<store, burns, calls, createResult, starts, crashes, svars, vvars, hvars>>

\* Faulty variant: the catch never loops; every error ends the run.
KitErrorNoRetry(r, e) ==
  /\ runs[r].pc \in {"b_wait", "kit_burned"}
  /\ runs' = [runs EXCEPT ![r].pc = "f_update", ![r].err = e,
                          ![r].conf = "none",
                          ![r].cur = getById(store, runs[r].job)]
  /\ UNCHANGED <<store, burns, calls, createResult, starts, crashes, svars, vvars, hvars>>

\* kit.bridge throws or ends in state "error" (before or after the burn).
\* The catch of attemptBridgeWithRetry decides: break and rethrow, or delay
\* and loop.
KitError(r, e) ==
  /\ runs[r].pc \in {"b_wait", "kit_burned"}
  /\ IF ~isRetryableBridgeError(e) \/ runs[r].attempt >= DEFAULT_MAX_ATTEMPTS
     THEN runs' = [runs EXCEPT ![r].pc = "f_update", ![r].err = e,
                               ![r].conf = "none",
                               ![r].cur = getById(store, runs[r].job)]
     ELSE runs' = [runs EXCEPT ![r].pc = "a_begin", ![r].err = e,
                               ![r].conf = "none"]
  /\ UNCHANGED <<store, burns, calls, createResult, starts, crashes, svars, vvars, hvars>>

\* current.status = "completed" with the result's hashes; update(current).
HandleComplete(r) ==
  /\ runs[r].pc = "s_update"
  /\ store' = IF runs[r].cur.status # "absent"
              THEN update(store,
                     [runs[r].cur EXCEPT !.status = "completed",
                                         !.bridgeTxHash = runs[r].res.bridgeTxHash,
                                         !.destinationTxHash = runs[r].res.destinationTxHash,
                                         !.messageId = runs[r].res.messageId])
              ELSE store
  /\ runs' = [runs EXCEPT ![r] = IdleRun]
  /\ UNCHANGED <<burns, calls, createResult, starts, crashes, svars, vvars, hvars>>

\* catch: current.status = "failed"; current.lastError = message; update.
HandleFail(r) ==
  /\ runs[r].pc = "f_update"
  /\ store' = IF runs[r].cur.status # "absent"
              THEN update(store,
                     [runs[r].cur EXCEPT !.status = "failed",
                                         !.lastError = runs[r].err.message])
              ELSE store
  /\ runs' = [runs EXCEPT ![r] = IdleRun]
  /\ UNCHANGED <<burns, calls, createResult, starts, crashes, svars, vvars, hvars>>

\* The process is killed and restarted: the tasks are gone, the table stays.
Crash ==
  /\ crashes < MaxCrashes
  /\ \E r \in Runs : runs[r].pc # "idle"
  /\ crashes' = crashes + 1
  /\ runs' = [r \in Runs |-> IdleRun]
  /\ UNCHANGED <<store, burns, calls, createResult, starts, svars, vvars, hvars>>

(***************************************************************************)
(* Part 2 (SettleSpec, VerifySpec): the exact-EVM scheme's verify and      *)
(* settle, the EIP-3009 token contract they talk to, and the facilitator's *)
(* cross-chain pre-verify hook.  Addresses and hashes are abbreviated.     *)
(***************************************************************************)

\* ---------------------------------------------------------------- bounds
MaxReqs == 2
MaxSettles == 3
MaxTime == 2

Reqs == 1..MaxReqs

\* evmAccount.address, and the same account written in lower case.
FacAddr == "0xFAC1"
Addresses == {"0xFAC1", "0xfac1", "0xMERC"}
Malformed == "0xzz"

\* Address comparison goes through a normal form (getAddress, toLowerCase).
Lower(a) ==
  CASE a = "0xFAC1" -> "0xfac1"
    [] a = "0xMERC" -> "0xmerc"
    [] a = "0x036C" -> "0x036c"
    [] a = "0x1c7D" -> "0x1c7d"
    [] OTHER -> a

getAddress(a) == Lower(a)

\* viem isAddress / the extension's address pattern.
isAddress(a) == a \in Addresses \cup {"0x036C", "0x036c", "0x1c7D", "0xdead"}

BaseSepolia == "eip155:84532"
EthSepolia == "eip155:11155111"
UnknownNet == "eip155:999"

\* chainNameMap of the bridge service.
mapNetworkToChainName(n) ==
  CASE n = BaseSepolia -> "Base_Sepolia"
    [] n = EthSepolia -> "Ethereum_Sepolia"
    [] OTHER -> "null"

supportsChain(n) == mapNetworkToChainName(n) # "null"

\* defaultUsdcAddresses of the bridge service.
defaultUsdcAddresses(n) ==
  CASE n = BaseSepolia -> {"0x036C"}
    [] n = EthSepolia -> {"0x1c7D"}
    [] OTHER -> {}

\* Faulty variant: any address counts as USDC (the allowlist is not read).
isUSDCAnyAddress(asset, chain) == isAddress(asset)

isUSDC(asset, chain) ==
  IF ~isAddress(asset) THEN FALSE
  ELSE \E a \in defaultUsdcAddresses(chain) : Lower(a) = Lower(asset)

\* ------------------------------------------------- cross-chain extension
NoInfo == [destinationNetwork |-> "", destinationAsset |-> "", destinationPayTo |-> ""]
NoExt == [present |-> FALSE, info |-> NoInfo]

Caip2(n) == n \in {BaseSepolia, EthSepolia, UnknownNet}

\* extractCrossChainInfo as facilitator-implementation.ts uses it, on typed
\* values: the info carries the destination fields the facilitator reads.
\* null (NoInfo) unless the extension is present and its network and asset
\* match the patterns.
extractCrossChainInfo(p) ==
  IF ~p.ext.present THEN NoInfo
  ELSE IF Caip2(p.ext.info.destinationNetwork) /\ isAddress(p.ext.info.destinationAsset)
       THEN p.ext.info
  ELSE NoInfo

IsCrossChain(p) == extractCrossChainInfo(p) # NoInfo

\* ------------------------------------------------------- hook: validation
Continue == [abort |-> FALSE, reason |-> Undefined]
Abort(reason) == [abort |-> TRUE, reason |-> reason]

\* Faulty variant: the pay-to comparison is left out.
validateCrossChainRequestNoPayTo(p, r, en) ==
  LET info == extractCrossChainInfo(p) IN
  IF info = NoInfo \/ ~en THEN Continue
  ELSE IF ~isAddress(info.destinationPayTo) THEN Abort("invalid_destination_pay_to")
  ELSE IF ~supportsChain(r.network) \/ ~supportsChain(info.destinationNetwork)
       THEN Abort("unsupported_chain_pair")
  ELSE IF ~isUSDC(r.asset, r.network) THEN Abort("unsupported_source_asset")
  ELSE IF ~isUSDC(info.destinationAsset, info.destinationNetwork)
       THEN Abort("unsupported_destination_asset")
  ELSE Continue

validateCrossChainRequest(p, r, en) ==
  LET info == extractCrossChainInfo(p) IN
  IF info = NoInfo \/ ~en THEN Continue
  ELSE IF ~isAddress(info.destinationPayTo) THEN Abort("invalid_destination_pay_to")
  ELSE IF ~supportsChain(r.network) \/ ~supportsChain(info.destinationNetwork)
       THEN Abort("unsupported_chain_pair")
  ELSE IF ~isUSDC(r.asset, r.network) THEN Abort("unsupported_source_asset")
  ELSE IF ~isUSDC(info.destinationAsset, info.destinationNetwork)
       THEN Abort("unsupported_destination_asset")
  ELSE IF Lower(r.payTo) # Lower(FacAddr) THEN Abort("invalid_source_pay_to")
  ELSE Continue

\* checkLiquidity: both chains mapped and listed by the kit.
checkLiquidity(src, dst, kitLists) ==
  /\ mapNetworkToChainName(src) # "null"
  /\ mapNetworkToChainName(dst) # "null"
  /\ kitLists

\* getExchangeRate: 1.0 for USDC to USDC, else 0.
getExchangeRate(src, dst, srcAsset, dstAsset) ==
  IF isUSDC(srcAsset, src) /\ isUSDC(dstAsset, dst) THEN 1 ELSE 0

\* Faulty variant: the answer of checkLiquidity is not looked at.
onBeforeVerifyNoLiquidity(p, r, en, kitLists) ==
  LET validation == validateCrossChainRequest(p, r, en)
      info == extractCrossChainInfo(p)
  IN IF validation.abort THEN validation
     ELSE IF info # NoInfo /\ en
          THEN IF r.asset # info.destinationAsset
                  /\ getExchangeRate(r.network, info.destinationNetwork,
                                     r.asset, info.destinationAsset) <= 0
               THEN Abort("invalid_exchange_rate")
               ELSE Continue
          ELSE Continue

onBeforeVerify(p, r, en, kitLists) ==
  LET validation == validateCrossChainRequest(p, r, en)
      info == extractCrossChainInfo(p)
  IN IF validation.abort THEN validation
     ELSE IF info # NoInfo /\ en
          THEN IF ~checkLiquidity(r.network, info.destinationNetwork, kitLists)
               THEN Abort("insufficient_bridge_liquidity")
               ELSE IF r.asset # info.destinationAsset
                       /\ getExchangeRate(r.network, info.destinationNetwork,
                                          r.asset, info.destinationAsset) <= 0
                    THEN Abort("invalid_exchange_rate")
                    ELSE Continue
          ELSE Continue

\* Faulty variant: the settle hook does not validate.
onBeforeSettleNoValidation(p, r, en) == Continue

onBeforeSettle(p, r, en) == validateCrossChainRequest(p, r, en)

\* ------------------------------------------------------ exact-EVM verify
Valid == [isValid |-> TRUE, invalidReason |-> Undefined]
Invalid(reason) == [isValid |-> FALSE, invalidReason |-> reason]

\* Faulty variant: any recipient is taken.
recipientMatchesAlways(to, payTo) == TRUE

\* getAddress(authorization.to) === getAddress(requirements.payTo).
recipientMatches(to, payTo) == getAddress(to) = getAddress(payTo)

\* Faulty variant: the six-second margin is left out.
validBeforeOkNoMargin(validBefore, t) == ~(validBefore < t)

\* The check rejects validBefore < now + 6.
validBeforeOk(validBefore, t) == ~(validBefore < t + 6)

\* Faulty variant: validAfter is not looked at.
validAfterOkAlways(validAfter, t) == TRUE

\* The check rejects validAfter > now.
validAfterOk(validAfter, t) == ~(validAfter > t)

\* signer.verifyTypedData returned true; a false result and an exception of
\* the call (sigRead = FALSE) both end in the signature reason.
signatureAccepted(sigOk, sigRead) == sigRead /\ sigOk

\* balRead: whether the balanceOf read succeeded (a failed read is ignored).
\* sigRead: whether the verifyTypedData call returned rather than threw.
verify(p, r, t, bal, balRead, sigRead) ==
  IF p.scheme # "exact" \/ r.scheme # "exact" THEN Invalid("unsupported_scheme")
  ELSE IF r.name = "" \/ r.version = "" THEN Invalid("missing_eip712_domain")
  ELSE IF p.network # r.network THEN Invalid("network_mismatch")
  ELSE IF ~signatureAccepted(p.sigOk, sigRead)
       THEN Invalid("invalid_exact_evm_payload_signature")
  ELSE IF ~recipientMatches(p.to, r.payTo)
       THEN Invalid("invalid_exact_evm_payload_recipient_mismatch")
  ELSE IF ~validBeforeOk(p.validBefore, t)
       THEN Invalid("invalid_exact_evm_payload_authorization_valid_before")
  ELSE IF ~validAfterOk(p.validAfter, t)
       THEN Invalid("invalid_exact_evm_payload_authorization_valid_after")
  ELSE IF balRead /\ bal < r.amount THEN Invalid("insufficient_funds")
  ELSE IF p.value < r.amount
       THEN Invalid("invalid_exact_evm_payload_authorization_value")
  ELSE Valid

\* x402Facilitator.verify: a hook's abort is the response.
FacilitatorVerify(p, r, en, kitLists, t, bal, balRead, sigRead) ==
  LET hook == onBeforeVerify(p, r, en, kitLists) IN
  IF hook.abort THEN Invalid(hook.reason) ELSE verify(p, r, t, bal, balRead, sigRead)

\* ---------------------------------------------------------- exact-EVM settle
NoResp == [success |-> FALSE, transaction |-> Undefined, errorReason |-> Undefined]

\* Faulty variant: settle submits whatever verify said.
settleProceedsAlways(v) == TRUE

\* settle goes on to the transaction only when its own verify is valid.
settleProceeds(v) == v.isValid

\* Faulty variant: the receipt's status is not looked at.
receiptResponseAnyStatus(status, tx) ==
  [success |-> TRUE, transaction |-> tx, errorReason |-> Undefined]

receiptResponse(status, tx) ==
  IF status # "success"
  THEN [success |-> FALSE, transaction |-> tx, errorReason |-> "invalid_transaction_state"]
  ELSE [success |-> TRUE, transaction |-> tx, errorReason |-> Undefined]

verifyFailedResponse(v) ==
  [success |-> FALSE, transaction |-> "",
   errorReason |-> IF v.invalidReason # Undefined THEN v.invalidReason ELSE "invalid_scheme"]

\* Faulty variant: the catch block answers with the receipt branch's reason.
transactionFailedResponseWrongReason ==
  [success |-> FALSE, transaction |-> "", errorReason |-> "invalid_transaction_state"]

transactionFailedResponse ==
  [success |-> FALSE, transaction |-> "", errorReason |-> "transaction_failed"]

\* The token's transferWithAuthorization goes through (EIP-3009).
\* The contract records used authorizations per authorizer and nonce.
Executes(p, t, used, bal) ==
  /\ p.sigOk
  /\ <<p.from, p.nonce>> \notin used
  /\ t > p.validAfter
  /\ t < p.validBefore
  /\ bal >= p.value

\* ------------------------------------------------------------- the inputs
Buyers == {"0xBUY1", "0xBUY2"}
Nonces == {"n1", "n2"}

Payload(from, to, nonce, sigOk, vb, ext) ==
  [scheme |-> "exact", network |-> BaseSepolia, from |-> from, to |-> to,
   value |-> 10, validAfter |-> 0, validBefore |-> vb, nonce |-> nonce,
   sigOk |-> sigOk, ext |-> ext]

Requirements(payTo, asset) ==
  [scheme |-> "exact", network |-> BaseSepolia, asset |-> asset, amount |-> 10,
   payTo |-> payTo, name |-> "USDC", version |-> "2"]

GoodExt ==
  [present |-> TRUE,
   info |-> [destinationNetwork |-> EthSepolia, destinationAsset |-> "0x1c7D",
             destinationPayTo |-> "0xMERC"]]

Exts ==
  { NoExt, GoodExt,
    [GoodExt EXCEPT !.info.destinationAsset = "0xdead"],
    [GoodExt EXCEPT !.info.destinationPayTo = Malformed],
    [GoodExt EXCEPT !.info.destinationNetwork = UnknownNet] }

SettlePayloads ==
  {Payload(f, "0xMERC", n, sg, vb, NoExt) :
     f \in Buyers, n \in Nonces, sg \in BOOLEAN, vb \in {7, 20}}

SettleRequirements == {Requirements("0xMERC", "0x036C")}

VerifyPayloads ==
  {Payload("0xBUY1", to, "n1", sg, 20, e) : to \in Addresses, sg \in BOOLEAN, e \in Exts}

VerifyRequirements ==
  {Requirements(payTo, a) : payTo \in Addresses, a \in {"0x036C", "0xdead"}}

IdleReq ==
  [pc |-> "idle", p |-> Payload("0xBUY1", "0xMERC", "n1", FALSE, 7, NoExt),
   r |-> Requirements("0xMERC", "0x036C"), v |-> Valid, resp |-> NoResp,
   submitted |-> 0, pre |-> Valid, replay |-> FALSE]

NoVerify ==
  [asked |-> FALSE, p |-> Payload("0xBUY1", "0xMERC", "n1", FALSE, 20, NoExt),
   r |-> Requirements("0xMERC", "0x036C"), sigRead |-> TRUE, t |-> 0,
   kitLists |-> TRUE, resp |-> Valid]

InitSettle ==
  /\ now = 1
  /\ usedNonces = {}
  /\ balance = [b \in Buyers |-> 20]
  /\ reqs = [q \in Reqs |-> IdleReq]
  /\ settles = 0
  /\ successes = [a \in Buyers \X Nonces |-> 0]
  /\ settled = {}

InitVerify ==
  /\ enabled = TRUE
  /\ vreq = NoVerify

\* Faulty variant: the catch block sends the transaction again.
settleCatchRetries(req) ==
  IF req.submitted < 2 THEN [req EXCEPT !.pc = "submit"]
  ELSE [req EXCEPT !.pc = "done", !.resp = transactionFailedResponse]

\* settle's catch block: whatever was thrown after verify (by the submission
\* or by the wait for the receipt) ends the call with transaction_failed.
settleCatch(req) == [req EXCEPT !.pc = "done", !.resp = transactionFailedResponse]

\* POST /settle reaches the scheme's settle, which re-runs verify.
SettleBegin(q, p, r, balRead, sigRead) ==
  /\ reqs[q].pc = "idle"
  /\ settles < MaxSettles
  /\ settles' = settles + 1
  /\ LET v == verify(p, r, now, balance[p.from], balRead, sigRead)
         \* what a verify at this instant answers when its reads go through,
         \* and whether an earlier call has settled this payload
         req == [IdleReq EXCEPT !.p = p, !.r = r, !.v = v,
                                !.pre = verify(p, r, now, balance[p.from], TRUE, TRUE),
                                !.replay = p \in settled]
     IN reqs' = [reqs EXCEPT ![q] =
          IF settleProceeds(v)
          THEN [req EXCEPT !.pc = "submit"]
          ELSE [req EXCEPT !.pc = "done", !.resp = verifyFailedResponse(v)]]
  /\ UNCHANGED <<now, usedNonces, balance, successes, settled, bvars, vvars, hvars>>

\* signer.writeContract: the node runs the call first; a revert or an RPC
\* error throws and settle answers transaction_failed.
SettleSubmit(q, rpcOk) ==
  /\ reqs[q].pc = "submit"
  /\ reqs' = [reqs EXCEPT ![q] =
       IF rpcOk /\ Executes(reqs[q].p, now, usedNonces, balance[reqs[q].p.from])
       THEN [@ EXCEPT !.pc = "pending", !.submitted = @ + 1]
       ELSE settleCatch(@)]
  /\ UNCHANGED <<now, usedNonces, balance, settles, successes, settled, bvars, vvars, hvars>>

\* The transaction is mined and waitForTransactionReceipt returns.
SettleReceipt(q) ==
  /\ reqs[q].pc = "pending"
  /\ LET ok == Executes(reqs[q].p, now, usedNonces, balance[reqs[q].p.from])
         resp == receiptResponse(IF ok THEN "success" ELSE "reverted", "0xtx")
     IN /\ usedNonces' = IF ok THEN usedNonces \cup {<<reqs[q].p.from, reqs[q].p.nonce>>}
                                ELSE usedNonces
        /\ balance' = IF ok THEN [balance EXCEPT ![reqs[q].p.from] = @ - reqs[q].p.value]
                             ELSE balance
        /\ reqs' = [reqs EXCEPT ![q].pc = "done", ![q].resp = resp]
        /\ successes' = IF resp.success
                        THEN [successes EXCEPT ![<<reqs[q].p.from, reqs[q].p.nonce>>] = @ + 1]
                        ELSE successes
        /\ settled' = IF resp.success THEN settled \cup {reqs[q].p} ELSE settled
  /\ UNCHANGED <<now, settles, bvars, vvars, hvars>>

\* waitForTransactionReceipt throws (timeout); the transaction may still have
\* been mined.
SettleReceiptError(q, mined) ==
  /\ reqs[q].pc = "pending"
  /\ LET ok == mined /\ Executes(reqs[q].p, now, usedNonces, balance[reqs[q].p.from])
     IN /\ usedNonces' = IF ok THEN usedNonces \cup {<<reqs[q].p.from, reqs[q].p.nonce>>}
                                ELSE usedNonces
        /\ balance' = IF ok THEN [balance EXCEPT ![reqs[q].p.from] = @ - reqs[q].p.value]
                             ELSE balance
  /\ reqs' = [reqs EXCEPT ![q] = settleCatch(@)]
  /\ UNCHANGED <<now, settles, successes, settled, bvars, vvars, hvars>>

\* res.json(response): the request is over.
SettleRespond(q) ==
  /\ reqs[q].pc = "done"
  /\ reqs' = [reqs EXCEPT ![q] = IdleReq]
  /\ UNCHANGED <<now, usedNonces, balance, settles, successes, settled, bvars, vvars, hvars>>

Tick ==
  /\ now < MaxTime
  /\ now' = now + 1
  /\ UNCHANGED <<usedNonces, balance, reqs, settles, successes, settled, bvars, vvars, hvars>>

SettleNext ==
  \/ \E q \in Reqs, p \in SettlePayloads, r \in SettleRequirements,
          b \in BOOLEAN, sg \in BOOLEAN :
       SettleBegin(q, p, r, b, sg)
  \/ \E q \in Reqs, ok \in BOOLEAN : SettleSubmit(q, ok)
  \/ \E q \in Reqs : SettleReceipt(q)
  \/ \E q \in Reqs, m \in BOOLEAN : SettleReceiptError(q, m)
  \/ \E q \in Reqs : SettleRespond(q)
  \/ Tick

\* POST /verify: the facilitator's hook, then the scheme's verify.
VerifyRequest(p, r, kitLists, balRead, sigRead) ==
  /\ vreq' = [asked |-> TRUE, p |-> p, r |-> r, sigRead |-> sigRead, t |-> now,
              kitLists |-> kitLists,
              resp |-> FacilitatorVerify(p, r, enabled, kitLists, now, balance[p.from],
                                         balRead, sigRead)]
  /\ UNCHANGED <<enabled, xreq, dreq, signer, bvars, svars, hvars>>

VerifyNext ==
  \E p \in VerifyPayloads, r \in VerifyRequirements, k \in BOOLEAN, b \in BOOLEAN,
     sg \in BOOLEAN :
    VerifyRequest(p, r, k, b, sg)

\* The scheme's verify on its own, for authorizations with every position of
\* the validity window against the clock.
WindowPayloads ==
  {[Payload("0xBUY1", to, "n1", sg, vb, NoExt) EXCEPT !.validAfter = va] :
     to \in {"0xMERC", "0xFAC1"}, sg \in BOOLEAN, va \in 0..3, vb \in 6..9}

VerifyWindow(p, r, balRead, sigRead) ==
  /\ vreq' = [asked |-> TRUE, p |-> p, r |-> r, sigRead |-> sigRead, t |-> now,
              kitLists |-> TRUE,
              resp |-> verify(p, r, now, balance[p.from], balRead, sigRead)]
  /\ UNCHANGED <<enabled, xreq, dreq, signer, bvars, svars, hvars>>

WindowNext ==
  \/ \E p \in WindowPayloads, r \in SettleRequirements, b \in BOOLEAN, sg \in BOOLEAN :
       VerifyWindow(p, r, b, sg)
  \/ Tick

(***************************************************************************)
(* Part 3 (HttpSpec): one HTTP request through a facilitator server: the   *)
(* Express handler, the before hooks, the scheme, onAfterSettle and the    *)
(* bridge call it makes or spawns.  Three builds are in the repository:    *)
(* facilitator-implementation.ts, index.ts and the CrossChainScheme class. *)
(***************************************************************************)
Servers == {"facilitator-implementation", "index", "crossChainScheme"}

\* authorization.value is the amount required or more.
HttpPayloads ==
  {[Payload("0xBUY1", to, "n1", sg, 20, e) EXCEPT !.value = v] :
     to \in {"0xFAC1", "0xMERC"}, sg \in BOOLEAN, v \in {10, 12},
     e \in {NoExt, GoodExt, [GoodExt EXCEPT !.info.destinationAsset = "0xdead"]}}

HttpRequirements ==
  {[Requirements(payTo, "0x036C") EXCEPT !.network = n, !.scheme = sc] :
     payTo \in {"0xFAC1", "0xMERC"}, n \in {BaseSepolia, EthSepolia, UnknownNet},
     sc \in {"exact", "cross-chain"}}

NoTask == [state |-> "none", attempt |-> 0]

IdleHttp ==
  [pc |-> "idle", server |-> "none", kind |-> "none", bodyOk |-> TRUE,
   p |-> Payload("0xBUY1", "0xMERC", "n1", FALSE, 20, NoExt),
   r |-> Requirements("0xMERC", "0x036C"),
   hook |-> Continue, schemeCalls |-> 0, thrown |-> <<>>, http |-> 0,
   resp |-> NoResp, vresp |-> Valid, sourceTx |-> "", waitedBridge |-> FALSE,
   bridgeAmount |-> 0]

InitHttp ==
  /\ hreq = IdleHttp
  /\ htask = NoTask

\* The networks the scheme router has a scheme for.
registeredNetwork(n) == n \in {BaseSepolia, EthSepolia}

\* The before hook each build installs for a request kind.
beforeHook(server, kind, p, r, en, kitLists) ==
  IF server = "facilitator-implementation"
  THEN IF kind = "verify" THEN onBeforeVerify(p, r, en, kitLists)
       ELSE onBeforeSettle(p, r, en)
  ELSE IF server = "index" /\ kind = "verify" /\ r.scheme = "cross-chain"
       THEN IF ~IsCrossChain(p) THEN Abort("missing_cross_chain_extension")
            ELSE IF en /\ ~kitLists THEN Abort("insufficient_bridge_liquidity")
            ELSE Continue
  ELSE Continue

\* Faulty variant: the handler has no case for an aborted settlement.
settleCatchResponseNoAbortCase(thrown) ==
  [http |-> 500, resp |-> NoResp]

\* The catch block of POST /settle: an error whose message carries
\* "Settlement aborted:" becomes a 200 response with the rest of the message
\* as errorReason; anything else is a 500.
settleCatchResponse(thrown) ==
  IF Len(thrown) > 0 /\ Head(thrown) = "Settlement aborted:"
  THEN [http |-> 200,
        resp |-> [success |-> FALSE, transaction |-> "", errorReason |-> thrown[2]]]
  ELSE [http |-> 500, resp |-> NoResp]

\* onAfterSettle's condition for bridging.
bridgeTriggered(p, resp, en) ==
  LET info == extractCrossChainInfo(p) IN
  /\ info # NoInfo
  /\ resp.success
  /\ p.network # info.destinationNetwork
  /\ en

\* index.ts, onAfterSettle's condition for bridging.  The settlement network
\* (result.network, which CrossChainRouter.settle sets to the extension's
\* sourceNetwork) is the network the authorization was signed for, p.network
\* here; the destination is requirements.network.
bridgeTriggeredIndex(p, r, resp, en) ==
  /\ r.scheme = "cross-chain"
  /\ resp.success
  /\ p.network # r.network
  /\ en
  /\ IsCrossChain(p)

\* CrossChainRouter and CrossChainScheme handle the request: index.ts
\* registers the router for scheme "cross-chain".
crossChainRouted(server, r) ==
  server = "crossChainScheme" \/ (server = "index" /\ r.scheme = "cross-chain")

\* app.post: a body without paymentPayload or paymentRequirements is a 400.
HttpReceive(server, kind, bodyOk, p, r) ==
  /\ hreq.pc = "idle"
  /\ hreq' = IF bodyOk
             THEN [IdleHttp EXCEPT !.pc = "before", !.server = server, !.kind = kind,
                                   !.p = p, !.r = r]
             ELSE [IdleHttp EXCEPT !.pc = "done", !.server = server, !.kind = kind,
                                   !.bodyOk = FALSE, !.http = 400]
  /\ UNCHANGED <<htask, bvars, svars, vvars>>

\* facilitator.verify / facilitator.settle run the before hooks first: an
\* abort ends verify with {isValid: false, invalidReason: reason} and makes
\* settle throw "Settlement aborted: <reason>".
HttpBefore(kitLists) ==
  /\ hreq.pc = "before"
  /\ LET h == beforeHook(hreq.server, hreq.kind, hreq.p, hreq.r, enabled, kitLists) IN
     hreq' = IF ~h.abort THEN [hreq EXCEPT !.pc = "lookup"]
             ELSE IF hreq.kind = "verify"
                  THEN [hreq EXCEPT !.pc = "done", !.hook = h, !.http = 200,
                                    !.vresp = Invalid(h.reason)]
                  ELSE [hreq EXCEPT !.pc = "catch", !.hook = h,
                                    !.thrown = <<"Settlement aborted:", h.reason>>]
  /\ UNCHANGED <<htask, bvars, svars, vvars>>

\* The scheme for the request's network is looked up; none: an Error is thrown.
HttpLookup ==
  /\ hreq.pc = "lookup"
  /\ hreq' = IF registeredNetwork(hreq.r.network)
             THEN [hreq EXCEPT !.pc = "scheme"]
             ELSE [hreq EXCEPT !.pc = "catch", !.thrown = <<"Unsupported EVM network">>]
  /\ UNCHANGED <<htask, bvars, svars, vvars>>

\* The scheme's verify; res.json(response).  In index.ts and CrossChainScheme
\* the exact scheme is the library's and its answer is an input (lib).
HttpVerify(balRead, sigRead, lib) ==
  /\ hreq.pc = "scheme"
  /\ hreq.kind = "verify"
  /\ LET v == IF hreq.server = "facilitator-implementation"
              THEN verify(hreq.p, hreq.r, now, balance[hreq.p.from], balRead, sigRead)
              ELSE IF crossChainRouted(hreq.server, hreq.r) /\ ~IsCrossChain(hreq.p)
                   THEN Invalid("missing_cross_chain_extension")
              ELSE IF lib THEN Valid ELSE Invalid("invalid_exact_evm_payload_signature")
     IN hreq' = [hreq EXCEPT !.pc = "done", !.schemeCalls = @ + 1, !.http = 200,
                             !.vresp = v]
  /\ UNCHANGED <<htask, bvars, svars, vvars>>

\* The exact-EVM scheme's settle runs for the request (request slot 1).
HttpSchemeSettle(balRead, sigRead) ==
  /\ hreq.pc = "scheme"
  /\ hreq.kind = "settle"
  /\ hreq.server = "facilitator-implementation"
  /\ settles = 0
  /\ SettleBegin(1, hreq.p, hreq.r, balRead, sigRead)

HttpSchemeStep ==
  /\ hreq.pc = "scheme"
  /\ \/ \E ok \in BOOLEAN : SettleSubmit(1, ok)
     \/ SettleReceipt(1)
     \/ \E m \in BOOLEAN : SettleReceiptError(1, m)

\* The scheme's settle has returned its response.
HttpSettleReturn ==
  /\ hreq.pc = "scheme"
  /\ reqs[1].pc = "done"
  /\ hreq' = [hreq EXCEPT !.pc = "after", !.schemeCalls = @ + 1,
                          !.resp = reqs[1].resp,
                          !.sourceTx = IF reqs[1].resp.success
                                       THEN reqs[1].resp.transaction ELSE ""]
  /\ reqs' = [reqs EXCEPT ![1] = IdleReq]
  /\ UNCHANGED <<htask, now, usedNonces, balance, settles, successes, settled, bvars, vvars>>

\* index.ts and CrossChainScheme settle on the source chain through the
\* library's exact scheme; its outcome is an input.  The router and
\* CrossChainScheme re-verify first and answer a payload without the
\* extension with missing_cross_chain_extension.  CrossChainScheme then calls
\* bridgeService.bridge with requirements.amount when the source settlement
\* succeeded and bridging is enabled.
HttpLibSettle(outcome) ==
  /\ hreq.pc = "scheme"
  /\ hreq.kind = "settle"
  /\ hreq.server # "facilitator-implementation"
  /\ LET resp == CASE crossChainRouted(hreq.server, hreq.r) /\ ~IsCrossChain(hreq.p) ->
                        verifyFailedResponse(Invalid("missing_cross_chain_extension"))
                   [] outcome = "invalid" ->
                        verifyFailedResponse(Invalid("invalid_exact_evm_payload_signature"))
                   [] outcome = "failed" -> transactionFailedResponse
                   [] OTHER -> receiptResponse("success", "0xtx")
         inline == hreq.server = "crossChainScheme" /\ resp.success /\ enabled
     IN hreq' = [hreq EXCEPT
                   !.pc = IF hreq.server = "index" THEN "after"
                          ELSE IF inline THEN "inline_bridge"
                          ELSE "respond",
                   !.schemeCalls = @ + 1, !.resp = resp,
                   !.sourceTx = IF resp.success THEN resp.transaction ELSE "",
                   !.bridgeAmount = IF inline THEN hreq.r.amount ELSE 0]
  /\ UNCHANGED <<htask, bvars, svars, vvars>>

\* onAfterSettle: facilitator-implementation.ts calls
\* handleCrossChainBridgeAsync, which starts a task and returns; index.ts
\* awaits bridgeService.bridge inside the hook.  Both pass
\* context.requirements.amount as the amount to bridge.
HttpAfterSettle ==
  /\ hreq.pc = "after"
  /\ IF hreq.server = "facilitator-implementation"
     THEN IF bridgeTriggered(hreq.p, hreq.resp, enabled)
          THEN /\ htask' = [state |-> "running", attempt |-> 0]
               /\ hreq' = [hreq EXCEPT !.pc = "respond",
                                       !.bridgeAmount = hreq.r.amount]
          ELSE /\ hreq' = [hreq EXCEPT !.pc = "respond"]
               /\ UNCHANGED htask
     ELSE /\ hreq' = IF bridgeTriggeredIndex(hreq.p, hreq.r, hreq.resp, enabled)
                     THEN [hreq EXCEPT !.pc = "hook_bridge",
                                       !.bridgeAmount = hreq.r.amount]
                     ELSE [hreq EXCEPT !.pc = "respond"]
          /\ UNCHANGED htask
  /\ UNCHANGED <<bvars, svars, vvars>>

\* index.ts: the awaited bridge call returns or throws; the hook logs either.
HttpHookBridge(ok) ==
  /\ hreq.pc = "hook_bridge"
  /\ hreq' = [hreq EXCEPT !.pc = "respond", !.waitedBridge = TRUE]
  /\ UNCHANGED <<htask, bvars, svars, vvars>>

\* CrossChainScheme.settle: the awaited bridge call decides the response.
HttpInlineBridge(ok) ==
  /\ hreq.pc = "inline_bridge"
  /\ hreq' = [hreq EXCEPT
       !.pc = "respond", !.waitedBridge = TRUE,
       !.resp = IF ok
                THEN [success |-> TRUE, transaction |-> "0xmint", errorReason |-> Undefined]
                ELSE [success |-> FALSE, transaction |-> "",
                      errorReason |-> "nonce too low"]]
  /\ UNCHANGED <<htask, bvars, svars, vvars>>

\* res.json(response).
HttpRespond ==
  /\ hreq.pc = "respond"
  /\ hreq' = [hreq EXCEPT !.pc = "done", !.http = 200]
  /\ UNCHANGED <<htask, bvars, svars, vvars>>

\* The handler's catch block.
HttpCatch ==
  /\ hreq.pc = "catch"
  /\ hreq' = IF hreq.kind = "settle"
             THEN [hreq EXCEPT !.pc = "done",
                               !.http = settleCatchResponse(hreq.thrown).http,
                               !.resp = settleCatchResponse(hreq.thrown).resp]
             ELSE [hreq EXCEPT !.pc = "done", !.http = 500]
  /\ UNCHANGED <<htask, bvars, svars, vvars>>

\* One attempt of the background task (attemptBridgeWithRetry).
BridgeTask(e) ==
  /\ htask.state = "running"
  /\ htask' = [attempt |-> htask.attempt + 1,
               state |-> IF e = NoError THEN "completed"
                         ELSE IF ~isRetryableBridgeError(e)
                                 \/ htask.attempt + 1 >= DEFAULT_MAX_ATTEMPTS
                              THEN "failed"
                         ELSE "running"]
  /\ UNCHANGED <<hreq, bvars, svars, vvars>>

HttpNext ==
  \/ \E sv \in Servers, k \in {"verify", "settle"}, b \in BOOLEAN,
        p \in HttpPayloads, r \in HttpRequirements : HttpReceive(sv, k, b, p, r)
  \/ \E k \in BOOLEAN : HttpBefore(k)
  \/ HttpLookup
  \/ \E b \in BOOLEAN, sg \in BOOLEAN, lib \in BOOLEAN : HttpVerify(b, sg, lib)
  \/ \E b \in BOOLEAN, sg \in BOOLEAN : HttpSchemeSettle(b, sg)
  \/ HttpSchemeStep
  \/ HttpSettleReturn
  \/ \E o \in {"invalid", "failed", "ok"} : HttpLibSettle(o)
  \/ HttpAfterSettle
  \/ \E ok \in BOOLEAN : HttpHookBridge(ok)
  \/ \E ok \in BOOLEAN : HttpInlineBridge(ok)
  \/ HttpRespond
  \/ HttpCatch
  \/ \E e \in BridgeErrors \cup {NoError} : BridgeTask(e)

(***************************************************************************)
(* Part 4 (ExtensionSpec): extensions/crossChain.ts as written, on the     *)
(* untyped request body.  A JavaScript value carries its typeof; a string  *)
(* is the sequence of its characters, so that the two regular expressions  *)
(* are computed and not looked up.                                         *)
(***************************************************************************)
Digits == {"0", "1", "2", "3", "4", "5", "6", "7", "8", "9"}
HexChars == Digits \cup {"a", "b", "c", "d", "e", "f", "A", "B", "C", "D", "E", "F"}

Rep(c, n) == [i \in 1..n |-> c]

JSUndefined == [type |-> "undefined", chars |-> <<>>]
JSNumber == [type |-> "number", chars |-> <<>>]
Str(s) == [type |-> "string", chars |-> s]

\* /^eip155:\d+$/
Caip2Pattern(s) ==
  /\ Len(s) > 7
  /\ SubSeq(s, 1, 7) = <<"e", "i", "p", "1", "5", "5", ":">>
  /\ \A i \in 8..Len(s) : s[i] \in Digits

\* /^0x[a-fA-F0-9]{40}$/
AddressPattern(s) ==
  /\ Len(s) = 42
  /\ s[1] = "0"
  /\ s[2] = "x"
  /\ \A i \in 3..42 : s[i] \in HexChars

\* The networks and token addresses a caller may write.
NetworkTexts ==
  { <<"e", "i", "p", "1", "5", "5", ":", "8", "4", "5", "3">>,
    <<"e", "i", "p", "1", "5", "5", ":", "1">>,
    <<"e", "i", "p", "1", "5", "5", ":">>,
    <<"e", "i", "p", "1", "5", "5", ":", "8", "a">>,
    <<"s", "o", "l", "a", "n", "a", ":", "1", "0", "1">>,
    <<>> }

AssetTexts ==
  { <<"0", "x">> \o Rep("a", 40),
    <<"0", "x">> \o Rep("A", 20) \o Rep("9", 20),
    <<"0", "x">> \o Rep("a", 39),
    <<"0", "x">> \o Rep("a", 41),
    <<"0", "x">> \o Rep("a", 39) \o <<"g">>,
    <<"0", "X">> \o Rep("a", 40) }

\* The properties an info object may carry (JSUndefined: not there).
NoProps ==
  [sourceNetwork |-> JSUndefined, sourceAsset |-> JSUndefined,
   destinationNetwork |-> JSUndefined, destinationAsset |-> JSUndefined,
   destinationPayTo |-> JSUndefined]

CROSS_CHAIN == "cross-chain"

\* declareCrossChainExtension(sourceNetwork, sourceAsset): {info, schema}.
declareCrossChainExtension(sourceNetwork, sourceAsset) ==
  [type |-> "object",
   info |-> [type |-> "object",
             props |-> [NoProps EXCEPT !.sourceNetwork = Str(sourceNetwork),
                                       !.sourceAsset = Str(sourceAsset)]],
   schema |-> [type |-> "object",
               required |-> {"sourceNetwork", "sourceAsset"},
               additionalProperties |-> FALSE]]

\* No value under the key.
NoExtension ==
  [type |-> "undefined",
   info |-> [type |-> "undefined", props |-> NoProps],
   schema |-> [type |-> "undefined", required |-> {}, additionalProperties |-> TRUE]]

\* A PaymentPayload with the extension under the CROSS_CHAIN key.
WithExtension(extension) ==
  [extensions |-> [type |-> "object", keys |-> {CROSS_CHAIN}, crossChain |-> extension]]

NoExtensions ==
  [extensions |-> [type |-> "undefined", keys |-> {}, crossChain |-> NoExtension]]

\* What extractCrossChainInfo returns: null, or a new {sourceNetwork, sourceAsset}.
Null == [null |-> TRUE, info |-> [sourceNetwork |-> <<>>, sourceAsset |-> <<>>]]
Info(sourceNetwork, sourceAsset) ==
  [null |-> FALSE, info |-> [sourceNetwork |-> sourceNetwork, sourceAsset |-> sourceAsset]]

\* Faulty variant: the two patterns are not tested.
extractCrossChainInfoRawNoPatterns(payload) ==
  IF payload.extensions.type # "object" THEN Null
  ELSE LET extension == IF CROSS_CHAIN \in payload.extensions.keys
                        THEN payload.extensions.crossChain ELSE NoExtension
       IN IF extension.type # "object" THEN Null
          ELSE IF extension.info.type # "object" THEN Null
          ELSE LET info == extension.info.props IN
               IF /\ info.sourceNetwork.type = "string"
                  /\ info.sourceAsset.type = "string"
               THEN Info(info.sourceNetwork.chars, info.sourceAsset.chars)
               ELSE Null

\* extractCrossChainInfo(payload) of extensions/crossChain.ts.
extractCrossChainInfoRaw(payload) ==
  IF payload.extensions.type # "object" THEN Null
  ELSE LET extension == IF CROSS_CHAIN \in payload.extensions.keys
                        THEN payload.extensions.crossChain ELSE NoExtension
       IN IF extension.type # "object" THEN Null
          ELSE IF extension.info.type # "object" THEN Null
          ELSE LET info == extension.info.props IN
               IF /\ info.sourceNetwork.type = "string"
                  /\ info.sourceAsset.type = "string"
                  /\ Caip2Pattern(info.sourceNetwork.chars)
                  /\ AddressPattern(info.sourceAsset.chars)
               THEN Info(info.sourceNetwork.chars, info.sourceAsset.chars)
               ELSE Null

\* The three destination fields: all there and well-formed, or none.
DestinationProps ==
  { NoProps,
    [NoProps EXCEPT
       !.destinationNetwork = Str(<<"e", "i", "p", "1", "5", "5", ":", "1">>),
       !.destinationAsset = Str(<<"0", "x">> \o Rep("b", 40)),
       !.destinationPayTo = Str(<<"0", "x">> \o Rep("c", 40))] }

InfoObjects ==
  { [type |-> "undefined", props |-> NoProps], [type |-> "string", props |-> NoProps] }
  \cup { [type |-> "object",
          props |-> [d EXCEPT !.sourceNetwork = n, !.sourceAsset = a]] :
           d \in DestinationProps,
           n \in {JSUndefined, JSNumber} \cup {Str(t) : t \in NetworkTexts},
           a \in {JSUndefined, JSNumber} \cup {Str(t) : t \in AssetTexts} }

\* The bodies a client may send.
RawPayloads ==
  { NoExtensions,
    [extensions |-> [type |-> "object", keys |-> {}, crossChain |-> NoExtension]],
    WithExtension([NoExtension EXCEPT !.type = "string"]) }
  \cup { WithExtension([NoExtension EXCEPT !.type = "object", !.info = i]) :
           i \in InfoObjects }

NoExtract ==
  [pc |-> "idle", how |-> "none",
   x |-> [sourceNetwork |-> <<>>, sourceAsset |-> <<>>],
   payload |-> NoExtensions, out |-> Null]

\* The merchant declares the extension and the client echoes it in its payload.
MerchantDeclare(sourceNetwork, sourceAsset) ==
  /\ xreq.pc \in {"idle", "extracted"}
  /\ xreq' = [NoExtract EXCEPT
                !.pc = "built", !.how = "declare",
                !.x = [sourceNetwork |-> sourceNetwork, sourceAsset |-> sourceAsset],
                !.payload = WithExtension(
                              declareCrossChainExtension(sourceNetwork, sourceAsset))]
  /\ UNCHANGED <<enabled, vreq, dreq, signer, bvars, svars, hvars>>

\* A client sends a body of its own making.
ClientBody(payload) ==
  /\ xreq.pc \in {"idle", "extracted"}
  /\ xreq' = [NoExtract EXCEPT !.pc = "built", !.how = "body", !.payload = payload]
  /\ UNCHANGED <<enabled, vreq, dreq, signer, bvars, svars, hvars>>

\* The facilitator calls extractCrossChainInfo(paymentPayload).
Extract ==
  /\ xreq.pc = "built"
  /\ xreq' = [xreq EXCEPT !.pc = "extracted",
                          !.out = extractCrossChainInfoRaw(xreq.payload)]
  /\ UNCHANGED <<enabled, vreq, dreq, signer, bvars, svars, hvars>>

ExtensionNext ==
  \/ \E n \in NetworkTexts, a \in AssetTexts : MerchantDeclare(n, a)
  \/ \E b \in RawPayloads : ClientBody(b)
  \/ Extract

(***************************************************************************)
(* Part 5 (DomainSpec): buildDomain of the exact-EVM scheme, which the      *)
(* client uses to sign an authorization and the facilitator to verify it.   *)
(* The domain is given by the set of its keys.                              *)
(***************************************************************************)
MaxMask == 63

\* (n & k) !== 0 for k a power of two.
Bit(n, k) == (n \div k) % 2 = 1

\* requirements.extra.domain: absent, or an object whose fields, chainId and
\* salt are each given or not.
DomainExtras ==
  { [present |-> FALSE, hasFields |-> FALSE, fields |-> 0,
     hasChainId |-> FALSE, hasSalt |-> FALSE] }
  \cup
  { [present |-> TRUE, hasFields |-> hf, fields |-> f, hasChainId |-> hc, hasSalt |-> hs] :
      hf \in BOOLEAN, f \in 0..MaxMask, hc \in BOOLEAN, hs \in BOOLEAN }

NoDomain ==
  [pc |-> "idle",
   extra |-> [present |-> FALSE, hasFields |-> FALSE, fields |-> 0,
              hasChainId |-> FALSE, hasSalt |-> FALSE],
   domain |-> {}]

\* `fields ? (fields & bit) !== 0 : default`: the mask is used when fields is
\* truthy, and a number is truthy unless it is 0.  chainId is always
\* available (domainExtra.chainId ?? the number in requirements.network); the
\* salt is set only when domainExtra.salt is given.
buildDomain(d) ==
  LET fields == d.present /\ d.hasFields /\ d.fields # 0
      salt == d.present /\ d.hasSalt
      includeName == IF fields THEN Bit(d.fields, 1) ELSE TRUE
      includeVersion == IF fields THEN Bit(d.fields, 2) ELSE TRUE
      includeChainId == IF fields THEN Bit(d.fields, 4)
                        ELSE IF salt THEN FALSE ELSE TRUE
      includeVerifying == IF fields THEN Bit(d.fields, 8) ELSE TRUE
      includeSalt == IF fields THEN Bit(d.fields, 16) ELSE salt
  IN (IF includeName THEN {"name"} ELSE {})
     \cup (IF includeVersion THEN {"version"} ELSE {})
     \cup (IF includeVerifying THEN {"verifyingContract"} ELSE {})
     \cup (IF includeChainId THEN {"chainId"} ELSE {})
     \cup (IF includeSalt /\ salt THEN {"salt"} ELSE {})

\* createPaymentPayload or verify calls buildDomain for the requirements.
ReconstructDomain(d) ==
  /\ d.hasFields \/ d.fields = 0
  /\ dreq' = [pc |-> "built", extra |-> d, domain |-> buildDomain(d)]
  /\ UNCHANGED <<enabled, vreq, xreq, signer, bvars, svars, hvars>>

DomainNext == \E d \in DomainExtras : ReconstructDomain(d)

(***************************************************************************)
(* Part 6 (NonceSpec): the account nonces of the facilitator key on one     *)
(* chain.  The settlement path signs through the wallet client whose        *)
(* account carries a nonce manager; the bridge path signs through the       *)
(* BridgeKit adapter, which CircleCCTPBridgeService builds from the same    *)
(* private key and builds anew before every kit.bridge call.                *)
(***************************************************************************)
MaxTxs == 3

NoTxs == [pending |-> 0, next |-> 0, txs |-> <<>>]

\* The nonce manager: next = max(cached + 1, pendingFromChain); st.next is
\* cached + 1.
consume(st) == IF st.next > st.pending THEN st.next ELSE st.pending

\* signer.writeContract of a settlement: the manager issues the nonce and the
\* transaction is signed.
SettlementSign ==
  /\ Len(signer.txs) < MaxTxs
  /\ LET n == consume(signer) IN
     signer' = [signer EXCEPT
                  !.next = n + 1,
                  !.txs = Append(@, [path |-> "settlement", nonce |-> n,
                                     state |-> "signed"])]
  /\ UNCHANGED <<enabled, vreq, xreq, dreq, bvars, svars, hvars>>

\* bridge(): recreateAdapter(), then kit.bridge signs the burn with the new
\* adapter, which takes the nonce from the chain's pending count.
BurnSign ==
  /\ Len(signer.txs) < MaxTxs
  /\ signer' = [signer EXCEPT
                  !.txs = Append(@, [path |-> "burn", nonce |-> signer.pending,
                                     state |-> "signed"])]
  /\ UNCHANGED <<enabled, vreq, xreq, dreq, bvars, svars, hvars>>

\* A signed transaction reaches the node: it is taken when its nonce is the
\* next one and refused ("nonce too low") when the nonce is taken already.
Broadcast(i) ==
  /\ i \in 1..Len(signer.txs)
  /\ signer.txs[i].state = "signed"
  /\ signer.txs[i].nonce <= signer.pending
  /\ signer' = IF signer.txs[i].nonce = signer.pending
               THEN [signer EXCEPT !.pending = @ + 1, !.txs[i].state = "accepted"]
               ELSE [signer EXCEPT !.txs[i].state = "refused"]
  /\ UNCHANGED <<enabled, vreq, xreq, dreq, bvars, svars, hvars>>

NonceNext ==
  \/ SettlementSign
  \/ BurnSign
  \/ \E i \in 1..MaxTxs : Broadcast(i)

Init ==
  /\ InitBridge /\ InitSettle /\ InitVerify /\ InitHttp /\ xreq = NoExtract
  /\ dreq = NoDomain /\ signer = NoTxs


RunStep(r) ==
  \/ HandleMarkBridging(r)
  \/ AttemptBegin(r)
  \/ AttemptRecord(r)
  \/ BridgeCall(r)
  \/ \E o \in {"confirmed", "timeout"} : KitBurn(r, o)
  \/ \E res \in BridgeResults : KitReturn(r, res)
  \/ \E e \in BridgeErrors : KitError(r, e)
  \/ HandleComplete(r)
  \/ HandleFail(r)

Next ==
  \/ \E s \in SrcNets, t \in TxHashes, d \in DstNets : Create(s, t, d)
  \/ \E r \in Runs, j \in JobIds : HandleStart(r, j)
  \/ \E r \in Runs : RunStep(r)
  \/ Crash

Spec == Init /\ [][Next]_vars

SettleSpec == Init /\ [][SettleNext]_vars

\* CROSS_CHAIN_ENABLED is read once at boot.
VerifyInit ==
  /\ InitBridge /\ InitSettle /\ enabled \in BOOLEAN /\ vreq = NoVerify
  /\ InitHttp /\ xreq = NoExtract /\ dreq = NoDomain /\ signer = NoTxs

VerifySpec == VerifyInit /\ [][VerifyNext]_vars

WindowSpec == Init /\ [][WindowNext]_vars

HttpSpec == VerifyInit /\ [][HttpNext]_vars

\* A facilitator server next to a bridge_jobs table that something writes to:
\* the row for a settlement can be there when its onAfterSettle runs.
EnqueueNext ==
  \/ HttpNext
  \/ Create(BaseSepolia, "0xtx", EthSepolia)

EnqueueSpec == VerifyInit /\ [][EnqueueNext]_vars

ExtensionSpec == Init /\ [][ExtensionNext]_vars

DomainSpec == Init /\ [][DomainNext]_vars

NonceSpec == Init /\ [][NonceNext]_vars

\* The event loop runs every continuation that is ready, and every call to the
\* chain or the bridge kit ends (with a result or an error).  Nothing in the
\* program calls handleCrossChainBridgeAsync again for a stored job.
FairSpec == Spec /\ \A r \in Runs : WF_vars(RunStep(r))

\* ---------------------------------------------------------------- helpers
InFlight(r) == runs[r].pc \in {"b_wait", "kit_burned"}

HasDestinationTx(job) == job.destinationTxHash \notin {Undefined, ""}

Triple(job) == <<job.sourceNetwork, job.sourceTxHash, job.destinationNetwork>>

\* ------------------------------------------------------------------ claims

C2_TerminalIsFinal ==
  [][\A j \in JobIds :
       store[j].status \in TerminalStatuses => store'[j].status = store[j].status]_vars

\* C3 (as claimed): for one job the source-chain burn is executed at most once.
C3_BurnAtMostOnce == \A j \in JobIds : burns[j] <= 1

\* C4 (as claimed): no two tasks have a bridge call outstanding for the same
\* job at the same time.
C4_AtMostOneInFlight ==
  \A r1 \in Runs, r2 \in Runs :
    (r1 # r2 /\ InFlight(r1) /\ InFlight(r2)) => runs[r1].job # runs[r2].job

\* C8 (as claimed): a stored job carries a destinationTxHash exactly when its
\* status is completed.
C8_DestinationTxIffCompleted ==
  \A j \in Present(store) :
    HasDestinationTx(store[j]) <=> store[j].status = "completed"

\* C9 (as claimed): the burn of an attempt is executed only when the wait for
\* the source transaction's receipt of that attempt ended with the receipt.
C9_BurnOnlyAfterConfirmation ==
  \A r \in Runs : runs[r].pc = "kit_burned" => runs[r].conf = "confirmed"

\* C10 (as claimed): every job that is bridging eventually reaches completed
\* or failed, also across a restart of the process.
C10_BridgingLeadsToFinished ==
  \A j \in JobIds :
    (store[j].status = "bridging") ~> (store[j].status \in {"completed", "failed"})

\* ------------------------------------------------------------ C5, C6, C7

\* C5 as stated: two successful settlements never carry the same
\* authorization nonce, whoever the payers are.
C5_NoncesDiffer ==
  \A n \in Nonces : successes[<<"0xBUY1", n>>] + successes[<<"0xBUY2", n>>] <= 1

\* C5 amended: one authorization, identified by its payer and nonce, is
\* settled successfully at most once, also when two /settle requests with the
\* same payload run concurrently.
C5_AuthorizationSettledOnce ==
  \A a \in Buyers \X Nonces : successes[a] <= 1

\* A replay reached the chain next to a successful settlement of the same
\* authorization and was turned down by its receipt.
C5_Witness ==
  \E q \in Reqs :
    /\ reqs[q].pc = "done"
    /\ reqs[q].submitted = 1
    /\ reqs[q].resp.errorReason = "invalid_transaction_state"
    /\ successes[<<reqs[q].p.from, reqs[q].p.nonce>>] = 1

\* C6: settle answers success only if the verify it ran first was valid; when
\* that verify fails nothing is submitted and the answer is success = false
\* with verify's reason as errorReason.
C6_SettleOnlyIfVerified ==
  \A q \in Reqs :
    reqs[q].pc = "done" =>
      /\ reqs[q].resp.success => reqs[q].v.isValid
      /\ ~reqs[q].v.isValid =>
           /\ ~reqs[q].resp.success
           /\ reqs[q].resp.errorReason = reqs[q].v.invalidReason
           /\ reqs[q].resp.transaction = ""
           /\ reqs[q].submitted = 0

\* One settle was turned down by its verify while another succeeded.
C6_Witness ==
  \E q1, q2 \in Reqs :
    /\ reqs[q1].pc = "done"
    /\ ~reqs[q1].v.isValid
    /\ reqs[q1].resp.errorReason = "invalid_exact_evm_payload_authorization_valid_before"
    /\ reqs[q2].pc = "done"
    /\ reqs[q2].resp.success

PaysFacilitator(p, r) ==
  /\ Lower(r.payTo) = Lower(FacAddr)
  /\ Lower(p.to) = Lower(FacAddr)

EarlierChecksPass(p, r) ==
  LET info == extractCrossChainInfo(p) IN
  /\ isAddress(info.destinationPayTo)
  /\ supportsChain(r.network) /\ supportsChain(info.destinationNetwork)
  /\ isUSDC(r.asset, r.network)
  /\ isUSDC(info.destinationAsset, info.destinationNetwork)

C13_ValidSettlesOrTransient ==
  \A q \in Reqs :
    (reqs[q].pc = "done" /\ reqs[q].pre.isValid) =>
      \/ reqs[q].resp.success
      \/ reqs[q].resp.errorReason \in {"transaction_failed", "invalid_transaction_state"}

PrecedingChecksPass(q) ==
  /\ signatureAccepted(q.p.sigOk, q.sigRead)
  /\ recipientMatches(q.p.to, q.r.payTo)

\* C14: verify answers isValid = false whenever the clock is outside
\* [validAfter, validBefore - 6].
C14_OutsideWindowInvalid ==
  (vreq.asked /\ (vreq.t < vreq.p.validAfter \/ vreq.t > vreq.p.validBefore - 6)) =>
    ~vreq.resp.isValid

\* A correctly signed authorization that is not valid yet was turned down.
C14_Witness ==
  /\ vreq.asked
  /\ vreq.t < vreq.p.validAfter
  /\ vreq.t <= vreq.p.validBefore - 6
  /\ vreq.resp.invalidReason = "invalid_exact_evm_payload_authorization_valid_after"

\* C15 as stated: verify accepts only if validBefore > now + 6, strictly, and
\* validAfter <= now.
C15_StrictValidBefore ==
  (vreq.asked /\ vreq.resp.isValid) =>
    /\ vreq.p.validBefore > vreq.t + 6
    /\ vreq.p.validAfter <= vreq.t

\* C15 amended: verify accepts only if validBefore >= now + 6 and
\* validAfter <= now; once the checks before them pass, validBefore < now + 6
\* gives the valid_before reason and otherwise validAfter > now gives the
\* valid_after reason.
C15_ValidityWindow ==
  vreq.asked =>
    /\ vreq.resp.isValid =>
         /\ vreq.p.validBefore >= vreq.t + 6
         /\ vreq.p.validAfter <= vreq.t
    /\ (PrecedingChecksPass(vreq) /\ vreq.p.validBefore < vreq.t + 6) =>
         vreq.resp.invalidReason = "invalid_exact_evm_payload_authorization_valid_before"
    /\ (PrecedingChecksPass(vreq) /\ vreq.p.validBefore >= vreq.t + 6
          /\ vreq.p.validAfter > vreq.t) =>
         vreq.resp.invalidReason = "invalid_exact_evm_payload_authorization_valid_after"

\* An authorization expiring exactly six seconds from now was accepted.
C15_Witness ==
  /\ vreq.asked
  /\ vreq.resp.isValid
  /\ vreq.p.validBefore = vreq.t + 6

C17_ReplayTransactionFailed ==
  \A q \in Reqs :
    (reqs[q].pc = "done" /\ reqs[q].replay) =>
      /\ ~reqs[q].resp.success
      /\ reqs[q].resp.errorReason = "transaction_failed"

\* C17 amended: the repeated call answers success = false; its errorReason is
\* transaction_failed when its own verify still passes and the reason of that
\* verify otherwise.
C17_ReplayFails ==
  \A q \in Reqs :
    (reqs[q].pc = "done" /\ reqs[q].replay) =>
      /\ ~reqs[q].resp.success
      /\ reqs[q].v.isValid => reqs[q].resp.errorReason = "transaction_failed"
      /\ ~reqs[q].v.isValid => reqs[q].resp.errorReason = reqs[q].v.invalidReason

\* A repeated payload was turned down by the submission.
C17_Witness ==
  \E q \in Reqs :
    /\ reqs[q].pc = "done"
    /\ reqs[q].replay
    /\ reqs[q].v.isValid
    /\ reqs[q].resp.errorReason = "transaction_failed"

\* C20: one settle call submits the transferWithAuthorization transaction at
\* most once, whatever happens to the submission or to the receipt.
C20_SubmitsAtMostOnce ==
  \A q \in Reqs : reqs[q].submitted <= 1

\* The wait for the receipt threw after the transaction was sent, and the call
\* ended without sending it again.
C20_Witness ==
  \E q \in Reqs :
    /\ reqs[q].pc = "done"
    /\ reqs[q].submitted = 1
    /\ reqs[q].resp.errorReason = "transaction_failed"

\* ------------------------------------------------- C11, C12, C18, C19

\* C11 (as claimed): the /settle handler never waits for the bridge call; the
\* response is produced without the bridge's outcome having been awaited.
C11_ResponseDoesNotWaitForBridge ==
  /\ hreq.pc \notin {"hook_bridge", "inline_bridge"}
  /\ ~hreq.waitedBridge

\* C12 (as claimed): a /settle whose source-chain transfer succeeded answers
\* success = true with the source transaction hash, whatever the bridge did.
C12_BridgeErrorsNotSurfaced ==
  (hreq.pc = "done" /\ hreq.kind = "settle" /\ hreq.sourceTx # "") =>
    /\ hreq.http = 200
    /\ hreq.resp.success
    /\ hreq.resp.transaction = hreq.sourceTx

\* C18: when a before hook aborts, the scheme's verify or settle is not
\* invoked and the 200 response carries the hook's reason as invalidReason
\* (verify) or errorReason (settle).
C18_HookAbortShortCircuits ==
  (hreq.pc = "done" /\ hreq.hook.abort) =>
    /\ hreq.schemeCalls = 0
    /\ settles = 0
    /\ hreq.http = 200
    /\ hreq.kind = "verify" =>
         /\ ~hreq.vresp.isValid
         /\ hreq.vresp.invalidReason = hreq.hook.reason
    /\ hreq.kind = "settle" =>
         /\ ~hreq.resp.success
         /\ hreq.resp.errorReason = hreq.hook.reason

\* A settle was aborted by onBeforeSettle and answered with the hook's reason.
C18_Witness ==
  /\ hreq.pc = "done"
  /\ hreq.kind = "settle"
  /\ hreq.hook.abort
  /\ hreq.resp.errorReason = "invalid_source_pay_to"

\* C19 (as claimed): a /verify whose body has both fields is answered with
\* HTTP 200 and a structured value; an unknown network gives
\* invalidReason unsupported_scheme.
C19_VerifyAlwaysStructured ==
  (hreq.pc = "done" /\ hreq.kind = "verify" /\ hreq.bodyOk) =>
    /\ hreq.http = 200
    /\ (~registeredNetwork(hreq.r.network) /\ ~hreq.hook.abort) =>
         hreq.vresp.invalidReason = "unsupported_scheme"

\* ------------------------------------------------------ C21, C23, C24

\* C21: a create whose idempotency key is already stored ends with the
\* conflict error and leaves the table as it was: no second row, no
\* overwritten row.
C21_ConflictLeavesStore ==
  [][\A s \in SrcNets, t \in TxHashes, d \in DstNets :
       (/\ Create(s, t, d)
        /\ getByIdempotencyKey(store, buildBridgeIdempotencyKey(s, t, d)) # NoJob)
       => /\ createResult' = "conflict"
          /\ store' = store]_vars

\* A create for the key of a job a worker has already marked bridging was
\* rejected; the row is still the bridging one.
C21_Witness ==
  /\ createResult = "conflict"
  /\ \E i \in Present(store) :
       /\ store[i].status = "bridging"
       /\ store[i].attempts > 0

\* C23 (as claimed): no step lowers a stored job's attempts counter.
C23_AttemptsNonDecreasing ==
  [][\A j \in JobIds : store'[j].attempts >= store[j].attempts]_vars

\* C24 (as claimed): a job whose status is pending, completed or cancelled
\* carries no lastError.
C24_LastErrorOnlyWhenFailed ==
  \A j \in Present(store) :
    store[j].status \in {"pending", "completed", "cancelled"} =>
      store[j].lastError = Undefined

\* ------------------------------------------------------------ C25, C26

\* C25 as stated: whatever the merchant declared comes back from
\* extractCrossChainInfo unchanged.
C25_RoundTrip ==
  (xreq.pc = "extracted" /\ xreq.how = "declare") =>
    xreq.out = [null |-> FALSE, info |-> xreq.x]

\* C25: a declared extension whose network reads eip155:<digits> and whose
\* asset reads 0x and 40 hex digits comes back from extractCrossChainInfo
\* with exactly the two declared values; any other declared extension comes
\* back as null.
C25_RoundTripWellFormed ==
  (xreq.pc = "extracted" /\ xreq.how = "declare") =>
    IF Caip2Pattern(xreq.x.sourceNetwork) /\ AddressPattern(xreq.x.sourceAsset)
    THEN xreq.out = [null |-> FALSE, info |-> xreq.x]
    ELSE xreq.out.null

\* A declaration with a mixed-case address has made the round trip.
C25_Witness ==
  /\ xreq.pc = "extracted"
  /\ xreq.how = "declare"
  /\ ~xreq.out.null
  /\ xreq.out.info = xreq.x
  /\ xreq.x.sourceAsset[3] = "A"

\* C26 (as claimed): extractCrossChainInfo returns null unless the body's
\* info carries destinationNetwork, destinationAsset and destinationPayTo,
\* all strings of the right form.
C26_NullUnlessDestinationValid ==
  LET e == xreq.payload.extensions.crossChain
      f == e.info.props
      destinationFieldsValid ==
        /\ xreq.payload.extensions.type = "object"
        /\ CROSS_CHAIN \in xreq.payload.extensions.keys
        /\ e.type = "object"
        /\ e.info.type = "object"
        /\ f.destinationNetwork.type = "string"
        /\ Caip2Pattern(f.destinationNetwork.chars)
        /\ f.destinationAsset.type = "string"
        /\ AddressPattern(f.destinationAsset.chars)
        /\ f.destinationPayTo.type = "string"
        /\ AddressPattern(f.destinationPayTo.chars)
  IN (xreq.pc = "extracted" /\ ~destinationFieldsValid) => xreq.out.null

\* ------------------------------------------------------ C27, C28, C29, C30

\* C27 (as claimed): a /verify request whose payload carries a cross-chain
\* extension while its scheme is not cross-chain, or whose scheme is
\* cross-chain while it carries none, is rejected with
\* missing_cross_chain_extension.
C27_ExtensionIffCrossChainScheme ==
  (vreq.asked /\ (IsCrossChain(vreq.p) # (vreq.r.scheme = "cross-chain"))) =>
    vreq.resp = Invalid("missing_cross_chain_extension")

C30_BridgeJobPersistedBeforeSpawn ==
  LET emitted == \E i \in Present(store) : store[i].sourceTxHash = hreq.sourceTx
  IN /\ htask.state # "none" => emitted
     /\ (/\ hreq.pc = "done"
         /\ hreq.server = "facilitator-implementation"
         /\ hreq.kind = "settle"
         /\ hreq.http = 200
         /\ hreq.sourceTx # ""
         /\ bridgeTriggered(hreq.p, [success |-> TRUE], enabled)) => emitted

\* ------------------------------------------------------------ C31 .. C34

\* C31 (as claimed): when onAfterSettle runs for a settlement whose
\* idempotency key already has a job in the table, it is a no-op: the table
\* is left as it is and no bridge processing is started.
C31_StoredKeyIsNoOp ==
  [][(/\ HttpAfterSettle
      /\ getByIdempotencyKey(store,
           buildBridgeIdempotencyKey(hreq.p.network, hreq.sourceTx,
             IF hreq.server = "facilitator-implementation"
             THEN extractCrossChainInfo(hreq.p).destinationNetwork
             ELSE hreq.r.network)) # NoJob)
     => /\ store' = store
        /\ htask' = htask
        /\ hreq'.pc = "respond"]_vars

\* C32 (as claimed): a job starts in pending and its status only ever changes
\* pending -> bridging, bridging -> completed, bridging -> failed or
\* pending -> cancelled.
C32_StatusTransitions ==
  [][\A j \in JobIds :
       store'[j].status # store[j].status =>
         <<store[j].status, store'[j].status>> \in
           { <<"absent", "pending">>, <<"pending", "bridging">>,
             <<"bridging", "completed">>, <<"bridging", "failed">>,
             <<"pending", "cancelled">> }]_vars

C40_AttemptsWithinCalls ==
  \A j \in Present(store) :
    /\ store[j].attempts \in 0..DEFAULT_MAX_ATTEMPTS
    /\ store[j].attempts <= calls[j]

\* C40 (amended): a stored attempts value is between 0 and maxAttempts and at
\* most one above the number of bridge calls started for the job.
C40_AttemptsWithinCallsPlusOne ==
  \A j \in Present(store) :
    /\ store[j].attempts \in 0..DEFAULT_MAX_ATTEMPTS
    /\ store[j].attempts <= calls[j] + 1

\* The third attempt is recorded and its bridge call has not started.
C40_Witness ==
  \E j \in Present(store), r \in Runs :
    /\ runs[r].job = j
    /\ runs[r].pc = "b_call"
    /\ store[j].attempts = DEFAULT_MAX_ATTEMPTS
    /\ calls[j] = DEFAULT_MAX_ATTEMPTS - 1

\* ------------------------------------------------------------ C36 .. C38

\* C36 (as claimed): the amount facilitator-implementation.ts hands to the
\* bridge for a settlement is the amount the settlement transferred,
\* authorization.value.
C36_BridgedAmountIsSettledValue ==
  (hreq.server = "facilitator-implementation" /\ hreq.bridgeAmount # 0) =>
    hreq.bridgeAmount = hreq.p.value

\* C37 (as claimed): a bridge is started only for a settlement that succeeded,
\* whose payload carries a valid cross-chain extension, whose settlement
\* network differs from the destination network, and with cross-chain enabled.
C37_BridgeOnlyWhenQualified ==
  hreq.bridgeAmount # 0 =>
    /\ hreq.sourceTx # ""
    /\ IsCrossChain(hreq.p)
    /\ hreq.p.network # (IF hreq.server = "facilitator-implementation"
                         THEN extractCrossChainInfo(hreq.p).destinationNetwork
                         ELSE hreq.r.network)
    /\ enabled

C39_DomainFieldsMatchMask ==
  (dreq.pc = "built" /\ dreq.extra.present /\ dreq.extra.hasFields) =>
    dreq.domain =
      (IF Bit(dreq.extra.fields, 1) THEN {"name"} ELSE {})
      \cup (IF Bit(dreq.extra.fields, 2) THEN {"version"} ELSE {})
      \cup (IF Bit(dreq.extra.fields, 4) THEN {"chainId"} ELSE {})
      \cup (IF Bit(dreq.extra.fields, 8) THEN {"verifyingContract"} ELSE {})
      \cup (IF Bit(dreq.extra.fields, 16) THEN {"salt"} ELSE {})

\* ------------------------------------------------------------------- C35

\* C35 (as claimed): no two transactions the facilitator key signs on one
\* chain, settlements or burns, are given the same account nonce.
C35_NoncesDistinct ==
  \A i, j \in 1..Len(signer.txs) :
    i # j => signer.txs[i].nonce # signer.txs[j].nonce

====
